---- MODULE Spec2Model ----
(***************************************************************************)
(* Wind turbine grid simulator (src/windturbinesimOB25D.js).               *)
(*                                                                         *)
(* Numbers.  The script computes in IEEE doubles; the model computes in    *)
(* fixed point over the integers:                                          *)
(*   wind components and speed   whole m/s (samples have an exact hypot)   *)
(*   wind power density          mW/m^2   (W/m^2 * 1000)                   *)
(*   power                       W        (kW * 1000)                      *)
(*   energy                      Wh       (kWh * 1000)                     *)
(*   household load              steps of the load slider (0.5 kWh)        *)
(* Every division truncates (MulDiv, Mean).  Math.PI is 355/113.           *)
(* Images.  Every image operation of the script is pointwise, so the model *)
(* follows the weather at the clicked point and, for the building raster   *)
(* and the random image of the lottery, one pixel of the map.              *)
(* A JavaScript division by zero yields Infinity or NaN, never an          *)
(* exception; JSDiv models that.                                           *)
(* The last section models the feature construction and the frame          *)
(* composition of the storm track script (src/melissatrack.js).            *)
(***************************************************************************)
EXTENDS Integers, Sequences, FiniteSets, TLC

VARIABLES
    APP_STATE,   \* the global state object (lines 72-80)
    turbSlider,  \* value of turbSlider
    loadSlider,  \* value of loadSlider, in slider steps of 0.5 kWh/day
    turbLabel,   \* value of turbLabel
    loadLabel,   \* value of loadLabel
    statsPanel,  \* widgets of statsPanel, in order
    chartPanel,  \* widgets of chartPanel, in order
    layers,      \* Map.layers(), in order
    mapCenter,   \* object the map is centred on
    calls,       \* per click: the chain of evaluate() calls in flight
    nClicks,     \* number of map clicks so far
    seedImage,   \* the value of ee.Image.random(42) at the pixel
    baseline,    \* history (render specification): the render it starts from
    img,         \* one weather image at the clicked point (u, v)
    bands,       \* the bands `processed` computes for img
    bestTrackData,  \* storm track script: the ground-truth entries
    trackIndex,     \* storm track script: i of the construction loop
    segments,       \* storm track script: the line segments built so far
    points,         \* storm track script: the point features built so far
    frame           \* storm track script: the frame processFrame returned last

vars == <<APP_STATE, turbSlider, loadSlider, turbLabel, loadLabel, statsPanel,
          chartPanel, layers, mapCenter, calls, nClicks, seedImage, baseline, img, bands,
          bestTrackData, trackIndex, segments, points, frame>>

trackVars == <<bestTrackData, trackIndex, segments, points, frame>>

appVars == <<APP_STATE, turbSlider, loadSlider, turbLabel, loadLabel, statsPanel,
             chartPanel, layers, mapCenter, calls, nClicks, seedImage, baseline>>

NULL == [null |-> TRUE]   \* JavaScript null / undefined

\* the storm track script is a separate script: it is not running
TrackIdle ==
    /\ bestTrackData = <<>>
    /\ trackIndex = 0
    /\ segments = <<>>
    /\ points = <<>>
    /\ frame = NULL

\* ------------------------------------------------------------------------
\* Bounds of the model
\* ------------------------------------------------------------------------
MaxComp == 30        \* |u|, |v| <= MaxComp m/s in the per-image specification
NumDays == 2         \* days of the series (the script: 365)
MaxPerDay == 1       \* weather images per day
MaxClicks == 2       \* map clicks in one behaviour
MaxSamples == 2      \* weather images per day in the series specification
WpdMargin == 30      \* mean WPD answers within WpdMargin mW/m^2 of a quality threshold
MaxEntries == 3      \* entries of bestTrackData in the storm track specification
MaxTime == 4         \* timestamps are 0..MaxTime, in units of 3 hours
SeedLevels == 2      \* ee.Image.random values are k/SeedLevels, 0 <= k < SeedLevels

\* ------------------------------------------------------------------------
\* 1. CONFIGURATION & CONSTANTS (lines 25-62)
\* ------------------------------------------------------------------------
ROTOR_DIAMETER_M == 120
SYSTEM_EFFICIENCY_PCT == 40     \* SYSTEM_EFFICIENCY 0.40
AIR_DENSITY_MILLI == 1225       \* AIR_DENSITY 1.225
MIN_WPD_THRESHOLD == 200
MAX_GENERATION_KW == 3000
CUT_IN_SPEED == 3               \* speed.lt(3)
CUT_OUT_SPEED == 25             \* speed.gt(25)
PI_NUM == 355                   \* Math.PI ~ 355/113
PI_DEN == 113
KILO == 1000                    \* .divide(1000): W -> kW; also the fixed-point scale
HOURS_PER_DAY == 24             \* .multiply(24)
LOAD_STEP_WH == 500             \* loadSlider step 0.5 kWh
GOOD_WPD == 200                 \* meanWPD < 200
EXCELLENT_WPD == 400            \* meanWPD < 400

\* ------------------------------------------------------------------------
\* Arithmetic helpers
\* ------------------------------------------------------------------------
Min(a, b) == IF a < b THEN a ELSE b

\* floor(a * b / c) without leaving 32 bits (b * c < 2^31)
MulDiv(a, b, c) == (a \div c) * b + ((a % c) * b) \div c

RECURSIVE SumSeq(_)
SumSeq(s) == IF s = <<>> THEN 0 ELSE Head(s) + SumSeq(Tail(s))

\* ee.Reducer.mean / aggregate_mean over a non-empty list
Mean(s) == SumSeq(s) \div Len(s)

SeqsUpTo(S, n) == UNION {[1..k -> S] : k \in 0..n}

\* ------------------------------------------------------------------------
\* Per-image physics: the function mapped over dailyImages (lines 361-388)
\* ------------------------------------------------------------------------
\* u.hypot(v), for components whose hypotenuse is a whole number
HasHypot(u, v) == \E s \in 0..(2 * MaxComp + 2) : s * s = u * u + v * v
Hypot(u, v) == CHOOSE s \in 0..(2 * MaxComp + 2) : s * s = u * u + v * v

\* speed.pow(3).multiply(0.5 * AIR_DENSITY), in mW/m^2
WPD(speed) == (speed * speed * speed * AIR_DENSITY_MILLI) \div 2

\* Math.PI * (radius * radius), in m^2
SweptArea ==
    LET radius == ROTOR_DIAMETER_M \div 2
    IN  MulDiv(radius * radius, PI_NUM, PI_DEN)

\* wpd.multiply(area).multiply(SYSTEM_EFFICIENCY), in W
RawPowerW(wpd) == MulDiv(MulDiv(wpd, SweptArea, KILO), SYSTEM_EFFICIENCY_PCT, 100)

\* image.where(test, value)
Where(value, test, replacement) == IF test THEN replacement ELSE value

\* mutants of the power curve
GenerationKW_NoCutOut(speed, rawPowerW) ==
    Where(Min(rawPowerW, MAX_GENERATION_KW * KILO), speed < CUT_IN_SPEED, 0)

GenerationKW_NoCap(speed, rawPowerW) ==
    Where(rawPowerW, speed < CUT_IN_SPEED \/ speed > CUT_OUT_SPEED, 0)

GenerationKW_Inclusive(speed, rawPowerW) ==
    Where(Min(rawPowerW, MAX_GENERATION_KW * KILO),
          speed <= CUT_IN_SPEED \/ speed >= CUT_OUT_SPEED, 0)

\* rawPowerW.divide(1000).min(MAX_GENERATION_KW).where(speed.lt(3).or(speed.gt(25)), 0)
\* in thousandths of a kW
GenerationKW(speed, rawPowerW) ==
    Where(Min(rawPowerW, MAX_GENERATION_KW * KILO),
          speed < CUT_IN_SPEED \/ speed > CUT_OUT_SPEED, 0)

\* the bands of one processed image (speed and rawPowerW kept for inspection)
Processed(im) ==
    LET speed == Hypot(im.u, im.v)
        wpd == WPD(speed)
        rawPowerW == RawPowerW(wpd)
    IN  [speed |-> speed, WPD |-> wpd, rawPowerW |-> rawPowerW,
         Generation_KW |-> GenerationKW(speed, rawPowerW)]

\* ------------------------------------------------------------------------
\* The daily time series of a click (lines 355-402)
\* ------------------------------------------------------------------------
\* weather: for each day of the series, the images of weatherSeries in that
\* day at the clicked point, each a record [u, v]

\* mutant: the power curve is applied to the mean speed of the day
DayMeans_CurveOfMean(dailyImages) ==
    LET speeds == [i \in 1..Len(dailyImages) |-> Hypot(dailyImages[i].u, dailyImages[i].v)]
    IN  IF Len(dailyImages) = 0
        THEN [WPD |-> NULL, Generation_KW |-> NULL]
        ELSE [WPD |-> [value |-> Mean([i \in 1..Len(speeds) |-> WPD(speeds[i])])],
              Generation_KW |->
                  [value |-> GenerationKW(Mean(speeds), RawPowerW(WPD(Mean(speeds))))]]

\* processed.mean().reduceRegion(mean, point): null bands for a day without images
DayMeans(dailyImages) ==
    LET processed == [i \in 1..Len(dailyImages) |-> Processed(dailyImages[i])]
    IN  IF Len(dailyImages) = 0
        THEN [WPD |-> NULL, Generation_KW |-> NULL]
        ELSE [WPD |-> [value |-> Mean([i \in 1..Len(processed) |-> processed[i].WPD])],
              Generation_KW |->
                  [value |-> Mean([i \in 1..Len(processed) |-> processed[i].Generation_KW])]]

\* ee.Feature(null, {...}) of day n; the energy is in Wh
DayFeature(n, dailyImages) ==
    LET means == DayMeans(dailyImages)
    IN  [time_start |-> n,
         WPD |-> means.WPD,
         Daily_KWh_Per_Turbine |->
             IF means.Generation_KW = NULL THEN NULL
             ELSE [value |-> means.Generation_KW.value * HOURS_PER_DAY]]

NotNullWPD(f) == f.WPD # NULL

\* mutant: the notNull filter is dropped
DailyData_NoFilter(weather) ==
    [features |-> [n \in 1..NumDays |-> DayFeature(n - 1, weather[n])]]

\* ee.FeatureCollection(ee.List.sequence(0, 364).map(...)).filter(notNull(['WPD']))
DailyData(weather) ==
    [features |->
        SelectSeq([n \in 1..NumDays |-> DayFeature(n - 1, weather[n])], NotNullWPD)]

\* dailyData.aggregate_mean(property)
AggregateMeanWPD(dailyData) ==
    Mean([i \in 1..Len(dailyData.features) |-> dailyData.features[i].WPD.value])

AggregateMeanGen(dailyData) ==
    Mean([i \in 1..Len(dailyData.features) |->
              dailyData.features[i].Daily_KWh_Per_Turbine.value])

\* a dictionary is a set of <<key, value>> pairs
Has(dict, key) == \E e \in dict : e[1] = key
Get(dict, key) == (CHOOSE e \in dict : e[1] = key)[2]

\* mutant: only the null check is made
Buildings_NullOnly(bCount) ==
    IF bCount # NULL
    THEN (IF Has(bCount.dict, "building_presence")
          THEN Get(bCount.dict, "building_presence") ELSE -1)
    ELSE 0

\* (bCount && bCount.building_presence) ? bCount.building_presence : 0
\* bCount is NULL or [dict |-> the dictionary of per-band counts]
Buildings(bCount) ==
    IF bCount # NULL /\ Has(bCount.dict, "building_presence")
                     /\ Get(bCount.dict, "building_presence") # 0
    THEN Get(bCount.dict, "building_presence")
    ELSE 0

\* ------------------------------------------------------------------------
\* JavaScript numbers of the feasibility calculation: a ratio num/den with
\* den >= 0; den = 0 is Infinity (num > 0) or NaN (num = 0)
\* ------------------------------------------------------------------------
Num(n) == [num |-> n, den |-> 1]
JSDiv(a, b) == [num |-> a.num * b.den, den |-> a.den * b.num]
IsFinite(r) == r.den > 0
Floor(r) == IF r.den = 0 THEN [num |-> Min(r.num, 1), den |-> 0]
            ELSE Num(r.num \div r.den)
\* r >= 1 (false for NaN)
AtLeastOne(r) == IF r.den = 0 THEN r.num > 0 ELSE r.num >= r.den
\* Math.min(r, 1.0)
MinOne(r) == IF r.den = 0 THEN (IF r.num > 0 THEN Num(1) ELSE r)
             ELSE IF r.num >= r.den THEN Num(1) ELSE r
\* Math.round of a fixed-point value (thousandths)
Round(x) == (x + (KILO \div 2)) \div KILO
\* (r * 100).toFixed(1), in tenths of a percent, for r < 1
ToFixed1(r) == IF r.den = 0 THEN -1 ELSE (MulDiv(r.num, 2 * KILO, r.den) + 1) \div 2

\* ------------------------------------------------------------------------
\* renderVisuals (lines 201-323)
\* ------------------------------------------------------------------------
\* var totalDailyKWh = APP_STATE.kwhPerTurbine * numTurbines   (Wh)
TotalDailyKWh(kwhPerTurbine, numTurbines) == kwhPerTurbine * numTurbines

\* mutant: rounds up
HomesSupported_Ceil(totalDailyKWh, consumption) ==
    LET r == JSDiv(Num(totalDailyKWh), Num(consumption * LOAD_STEP_WH))
    IN  IF r.den = 0 THEN Floor(r) ELSE Num((r.num + r.den - 1) \div r.den)

\* Math.floor(totalDailyKWh / consumption)
HomesSupported(totalDailyKWh, consumption) ==
    Floor(JSDiv(Num(totalDailyKWh), Num(consumption * LOAD_STEP_WH)))

\* mutant: the guard on the building count is dropped
CoverageRatio_NoGuard(homesSupported, buildings) ==
    JSDiv(homesSupported, Num(buildings))

\* var coverageRatio = 0; if (APP_STATE.buildings > 0) coverageRatio = homes / buildings
CoverageRatio(homesSupported, buildings) ==
    IF buildings > 0 THEN JSDiv(homesSupported, Num(buildings)) ELSE Num(0)

\* mutant: the ratio is not clamped
CappedRatio_NoClamp(coverageRatio) == coverageRatio

\* Math.min(coverageRatio, 1.0)
CappedRatio(coverageRatio) == MinOne(coverageRatio)

\* seed.lt(cappedRatio) at one pixel; the seed value is k / SeedLevels
IsPowered(k, cappedRatio) ==
    cappedRatio.den > 0 /\ k * cappedRatio.den < cappedRatio.num * SeedLevels

\* mutant: the building raster is left out of the mask
FinalVisual_NoMask(seed, buildingRaster, cappedRatio) == IsPowered(seed, cappedRatio)

\* isPowered.updateMask(buildingRaster.select('building_presence').and(isPowered)):
\* whether the pixel is left visible
FinalVisual(seed, buildingRaster, cappedRatio) ==
    buildingRaster.building /\ IsPowered(seed, cappedRatio)

\* mutant: Good and Excellent swapped at the upper threshold
Quality_Mutant(meanWPD) ==
    IF meanWPD < GOOD_WPD * KILO THEN "Poor"
    ELSE IF meanWPD <= EXCELLENT_WPD * KILO THEN "Good" ELSE "Excellent"

\* meanWPD < 200 ? 'Poor' : meanWPD < 400 ? 'Good' : 'Excellent'
Quality(meanWPD) ==
    IF meanWPD < GOOD_WPD * KILO THEN "Poor"
    ELSE IF meanWPD < EXCELLENT_WPD * KILO THEN "Good" ELSE "Excellent"

\* meanWPD < 200 ? 'black' : meanWPD < 400 ? 'orange' : 'green'
WpdColor(meanWPD) ==
    IF meanWPD < GOOD_WPD * KILO THEN "black"
    ELSE IF meanWPD < EXCELLENT_WPD * KILO THEN "orange" ELSE "green"

\* mutant: the status is decided on the clamped ratio with a strict test
StatusLabel_Strict(coverageRatio) ==
    IF ~AtLeastOne(coverageRatio) \/ coverageRatio.num = coverageRatio.den
    THEN [kind |-> "status", text |-> "STATUS: PARTIAL COVERAGE",
          pctText |-> ToFixed1(MinOne(coverageRatio)), color |-> "orange"]
    ELSE [kind |-> "status", text |-> "STATUS: FULL COVERAGE",
          pctText |-> -1, color |-> "green"]

\* var pctVal = coverageRatio * 100; pctText; the status indicator (lines 269-281)
\* pctText is in tenths of a percent
StatusLabel(coverageRatio) ==
    IF AtLeastOne(coverageRatio)
    THEN [kind |-> "status", text |-> "STATUS: FULL COVERAGE",
          pctText |-> -1, color |-> "green"]
    ELSE [kind |-> "status", text |-> "STATUS: PARTIAL COVERAGE",
          pctText |-> ToFixed1(coverageRatio), color |-> "orange"]

\* the labels added to statsPanel (lines 253-281)
StatsLabels(st, totalDailyKWh, homesSupported, coverageRatio) ==
    << [kind |-> "heading", text |-> "Resource Quality (at 100m height):"],
       [kind |-> "quality", value |-> Round(st.wpd), quality |-> Quality(st.wpd),
        color |-> WpdColor(st.wpd)],
       [kind |-> "heading", text |-> "Grid Feasibility:"],
       [kind |-> "generation", value |-> Round(totalDailyKWh)],
       [kind |-> "coverage", homesSupported |-> homesSupported,
        buildings |-> st.buildings, coverageRatio |-> coverageRatio,
        cappedRatio |-> CappedRatio(coverageRatio)],
       StatusLabel(coverageRatio) >>

\* the two charts added to chartPanel (lines 284-322)
Charts(timeSeriesData, numTurbines, consumption) ==
    LET fs == timeSeriesData.features
    IN  << [chart |-> "Daily House Coverage (1 Year)",
            data |-> [i \in 1..Len(fs) |->
                [time_start |-> fs[i].time_start,
                 Houses_Powered |->
                     HomesSupported(fs[i].Daily_KWh_Per_Turbine.value * numTurbines,
                                    consumption)]]],
           [chart |-> "Wind Resource Consistency",
            data |-> [i \in 1..Len(fs) |->
                [time_start |-> fs[i].time_start, WPD |-> fs[i].WPD.value,
                 Min_Required |-> MIN_WPD_THRESHOLD]]] >>

TurbineLayer(point) == [name |-> "Turbine Location (Center)", object |-> point]

\* Map.layers() after the reset and the two addLayer calls (lines 218-250)
MapLayers(st, seed, cappedRatio) ==
    IF st.buildingRaster # NULL
    THEN << TurbineLayer(st.centerPoint),
            [name |-> "Powered Households",
             visible |-> FinalVisual(seed, st.buildingRaster, cappedRatio)] >>
    ELSE << TurbineLayer(st.centerPoint) >>

\* mutant: the hasData guard is dropped
MustRender_Always(st) == TRUE

\* if (!APP_STATE.hasData) return;
MustRender(st) == st.hasData

\* the user interface renderVisuals leaves behind: ui = [statsPanel, chartPanel, layers]
RenderVisuals(st, numTurbines, consumption, seed, ui) ==
    IF ~MustRender(st) THEN ui
    ELSE LET totalDailyKWh == TotalDailyKWh(st.kwhPerTurbine, numTurbines)
             homesSupported == HomesSupported(totalDailyKWh, consumption)
             coverageRatio == CoverageRatio(homesSupported, st.buildings)
             cappedRatio == CappedRatio(coverageRatio)
         IN  [statsPanel |-> StatsLabels(st, totalDailyKWh, homesSupported, coverageRatio),
              chartPanel |-> IF st.timeSeriesData = NULL THEN <<>>
                             ELSE Charts(st.timeSeriesData, numTurbines, consumption),
              layers |-> MapLayers(st, seed, cappedRatio)]

\* mutant: the render caches the scaled energy in the state
StateAfterRender_Drift(st, numTurbines) ==
    IF st.hasData
    THEN [st EXCEPT !.kwhPerTurbine = TotalDailyKWh(st.kwhPerTurbine, numTurbines)]
    ELSE st

\* APP_STATE after renderVisuals: the function assigns to none of its fields
StateAfterRender(st, numTurbines) == st

\* ------------------------------------------------------------------------
\* Widgets and initial state (lines 72-80, 113-170)
\* ------------------------------------------------------------------------
\* mutants: a slider that reaches zero
TurbSliderValues_FromZero == 0..10
LoadSliderValues_FromZero == 0..60

\* ui.Slider({min: 1, max: 10, value: 1, step: 1})
TurbSliderValues == 1..10
\* ui.Slider({min: 0.5, max: 30, value: 1.5, step: 0.5}), in steps
LoadSliderValues == 1..60

ResetState(point) ==
    [wpd |-> 0, kwhPerTurbine |-> 0, buildings |-> 0, hasData |-> FALSE,
     timeSeriesData |-> NULL, buildingRaster |-> NULL, centerPoint |-> point]

ScanningLabel == [kind |-> "scanning",
                  text |-> "Scanning Site & Analyzing Buildings...(~1-2min)"]
ErrorLabel == [kind |-> "error",
               text |-> "Error: No wind data available for this location."]

\* the tier text of onParamsChange, lVal in slider steps (1 kWh = 2 steps)
Tier(lVal) == IF lVal < 2 THEN "(Basic)"
              ELSE IF lVal < 10 THEN "(Standard Household)" ELSE "(Heavy/Industrial)"

UI == [statsPanel |-> statsPanel, chartPanel |-> chartPanel, layers |-> layers]

InitApp ==
    /\ APP_STATE = ResetState(NULL)
    /\ turbSlider = 1
    /\ loadSlider = 3
    /\ turbLabel = [text |-> "Project Scale: # of Turbine"]
    /\ loadLabel = [text |-> "Avg Home Load: 1.5 kWh/day (Tier 3)"]
    /\ statsPanel = <<>>
    /\ chartPanel = <<>>
    /\ layers = <<>>
    /\ mapCenter = [start |-> TRUE]
    /\ calls = <<>>
    /\ nClicks = 0
    /\ seedImage \in 0..(SeedLevels - 1)
    /\ baseline = NULL

\* ------------------------------------------------------------------------
\* Slider handlers (lines 180-194)
\* ------------------------------------------------------------------------
\* onParamsChange with the sliders at tVal, lVal
OnParamsChange(tVal, lVal) ==
    LET ui == RenderVisuals(APP_STATE, tVal, lVal, seedImage, UI)
    IN  /\ turbLabel' = [text |-> "Project Scale: Turbines", value |-> tVal]
        /\ loadLabel' = [text |-> "Avg Home Load: kWh/day", value |-> lVal,
                         tier |-> Tier(lVal)]
        /\ APP_STATE' = StateAfterRender(APP_STATE, tVal)
        /\ statsPanel' = ui.statsPanel
        /\ chartPanel' = ui.chartPanel
        /\ layers' = ui.layers

TurbSliderChange(v) ==
    /\ v \in TurbSliderValues
    /\ v # turbSlider
    /\ turbSlider' = v
    /\ OnParamsChange(v, loadSlider)
    /\ UNCHANGED <<loadSlider, mapCenter, calls, nClicks, seedImage, baseline, img, bands, trackVars>>

LoadSliderChange(v) ==
    /\ v \in LoadSliderValues
    /\ v # loadSlider
    /\ loadSlider' = v
    /\ OnParamsChange(turbSlider, v)
    /\ UNCHANGED <<turbSlider, mapCenter, calls, nClicks, seedImage, baseline, img, bands, trackVars>>

\* ------------------------------------------------------------------------
\* Map.onClick and its evaluate callbacks (lines 332-454)
\* ------------------------------------------------------------------------
\* in: what the platform holds for the clicked point:
\*   in.weather  the images of each day,  in.bCount  the answer to structureCount,
\*   in.raster   buildingOnlyLayer
\* point: the ee.Geometry.Point object this click creates
MapClick(in) ==
    LET point == [point |-> nClicks + 1]
    IN  /\ nClicks < MaxClicks
        /\ nClicks' = nClicks + 1
        /\ statsPanel' = <<ScanningLabel>>
        /\ chartPanel' = <<>>
        /\ layers' = <<TurbineLayer(point)>>
        /\ APP_STATE' = ResetState(point)
        /\ calls' = Append(calls,
               [stage |-> "size", point |-> point,
                weather |-> in.weather, dailyData |-> DailyData(in.weather),
                buildingOnlyLayer |-> in.raster, bCount |-> in.bCount,
                wpdVal |-> NULL, genVal |-> NULL])
        /\ UNCHANGED <<turbSlider, loadSlider, turbLabel, loadLabel, mapCenter,
                       seedImage, baseline, img, bands, trackVars>>

\* a chain that has run its last callback: its closures are released
Settled(outcome) == [stage |-> outcome]

\* dailyData.size().evaluate(function(count) {...})
SizeCallback(c) ==
    /\ c \in 1..Len(calls)
    /\ calls[c].stage = "size"
    /\ LET count == Len(calls[c].dailyData.features)
       IN  \/ /\ count = 0
              /\ statsPanel' = <<ErrorLabel>>
              /\ calls' = [calls EXCEPT ![c] = Settled("nodata")]
              /\ UNCHANGED mapCenter
           \/ /\ count # 0
              /\ mapCenter' = [buffer |-> calls[c].point]
              /\ calls' = [calls EXCEPT ![c].stage = "wpd"]
              /\ UNCHANGED statsPanel
    /\ UNCHANGED <<APP_STATE, turbSlider, loadSlider, turbLabel, loadLabel, chartPanel,
                   layers, nClicks, seedImage, baseline, img, bands, trackVars>>

\* meanWPD.evaluate(function(wpdVal) {...})
WpdCallback(c) ==
    /\ c \in 1..Len(calls)
    /\ calls[c].stage = "wpd"
    /\ calls' = [calls EXCEPT ![c].stage = "gen",
                              ![c].wpdVal = [value |-> AggregateMeanWPD(calls[c].dailyData)]]
    /\ UNCHANGED <<APP_STATE, turbSlider, loadSlider, turbLabel, loadLabel, statsPanel,
                   chartPanel, layers, mapCenter, nClicks, seedImage, baseline, img, bands, trackVars>>

\* meanGen.evaluate(function(genVal) {...})
GenCallback(c) ==
    /\ c \in 1..Len(calls)
    /\ calls[c].stage = "gen"
    /\ calls' = [calls EXCEPT ![c].stage = "count",
                              ![c].genVal = [value |-> AggregateMeanGen(calls[c].dailyData)]]
    /\ UNCHANGED <<APP_STATE, turbSlider, loadSlider, turbLabel, loadLabel, statsPanel,
                   chartPanel, layers, mapCenter, nClicks, seedImage, baseline, img, bands, trackVars>>

\* the assignments of the innermost callback (lines 439-447)
LoadedState(st, call) ==
    [st EXCEPT !.wpd = call.wpdVal.value,
               !.kwhPerTurbine = call.genVal.value,
               !.buildings = Buildings(call.bCount),
               !.timeSeriesData = call.dailyData,
               !.buildingRaster = call.buildingOnlyLayer,
               !.hasData = TRUE]

\* structureCount.evaluate(function(bCount) {...})
CountCallback(c) ==
    /\ c \in 1..Len(calls)
    /\ calls[c].stage = "count"
    /\ LET st == LoadedState(APP_STATE, calls[c])
           ui == RenderVisuals(st, turbSlider, loadSlider, seedImage, UI)
       IN  /\ APP_STATE' = StateAfterRender(st, turbSlider)
           /\ statsPanel' = ui.statsPanel
           /\ chartPanel' = ui.chartPanel
           /\ layers' = ui.layers
    /\ calls' = [calls EXCEPT ![c] = Settled("loaded")]
    /\ UNCHANGED <<turbSlider, loadSlider, turbLabel, loadLabel, mapCenter, nClicks,
                   seedImage, baseline, img, bands, trackVars>>

\* ------------------------------------------------------------------------
\* The per-image function on its own
\* ------------------------------------------------------------------------
Image(u, v) == [u |-> u, v |-> v]

\* processed: the function mapped over dailyImages, applied to img
ProcessImage ==
    /\ bands = NULL
    /\ bands' = Processed(img)
    /\ UNCHANGED <<appVars, img, trackVars>>

\* ------------------------------------------------------------------------
\* Inputs
\* ------------------------------------------------------------------------
\* images: calm (2 m/s), inside the curve (5 m/s), at nameplate (12 m/s),
\* above cut-out (26 m/s)
Calm == Image(0, 2)
Breeze == Image(3, 4)
Gale == Image(0, 12)
Storm == Image(0, 26)

AllImages ==
    {Image(u, v) : u \in (-MaxComp)..MaxComp, v \in (-MaxComp)..MaxComp}

ExactImages == {im \in AllImages : HasHypot(im.u, im.v)}

\* answers of structureCount.evaluate
NoKey == [dict |-> {}]
Count(n) == [dict |-> {<<"building_presence", n>>, <<"building_height", n>>}]
Raster(b) == [building |-> b]

EveryDay(images) == [n \in 1..NumDays |-> images]
FirstDay(images) == [n \in 1..NumDays |-> IF n = 1 THEN images ELSE <<>>]

\* representative sites for the interleavings of several clicks
SiteInputs ==
    { [weather |-> EveryDay(<<>>), bCount |-> NULL, raster |-> Raster(FALSE)],
      [weather |-> FirstDay(<<Breeze>>), bCount |-> NoKey, raster |-> Raster(FALSE)],
      [weather |-> EveryDay(<<Gale>>), bCount |-> Count(100), raster |-> Raster(TRUE)],
      [weather |-> EveryDay(<<Breeze>>), bCount |-> Count(20000),
       raster |-> Raster(TRUE)] }

\* a town with exactly as many buildings as one turbine supplies at the default load
BreezeHomes ==
    HomesSupported(AggregateMeanGen(DailyData(EveryDay(<<Breeze>>))), 3).num

RenderInputs ==
    {in \in SiteInputs : Len(DailyData(in.weather).features) > 0}
    \cup { [weather |-> EveryDay(<<Breeze>>), bCount |-> Count(BreezeHomes),
            raster |-> Raster(TRUE)],
           \* a pixel between the buildings of a town
           [weather |-> EveryDay(<<Breeze>>), bCount |-> Count(20000),
            raster |-> Raster(FALSE)] }

\* every series of the bounded size, for a single click
ClickImages == {Breeze, Gale}
CountAnswers == {NULL, NoKey, Count(0), Count(100)}
ClickInputs ==
    [weather : [1..NumDays -> SeqsUpTo(ClickImages, MaxPerDay)],
     bCount : CountAnswers,
     raster : {Raster(b) : b \in BOOLEAN}]

\* slider positions the user moves to when several clicks interleave
UserTurbines == {1, 10}
UserLoads == {3, 60}

\* ------------------------------------------------------------------------
\* Specifications
\* ------------------------------------------------------------------------
Init == InitApp /\ img = NULL /\ bands = NULL /\ TrackIdle

Callback(c) ==
    \/ SizeCallback(c)
    \/ WpdCallback(c)
    \/ GenCallback(c)
    \/ CountCallback(c)

\* the application: clicks at any time, callbacks in any order
Next ==
    \/ \E in \in SiteInputs : MapClick(in)
    \/ \E c \in 1..MaxClicks : Callback(c)
    \/ \E v \in UserTurbines : TurbSliderChange(v)
    \/ \E v \in UserLoads : LoadSliderChange(v)

Spec == Init /\ [][Next]_vars

\* every evaluation that was issued returns
SpecFair == Spec /\ \A c \in 1..MaxClicks : WF_vars(Callback(c))

\* one click, every series of the bounded size
FirstClick == nClicks = 0 /\ \E in \in ClickInputs : MapClick(in)

NextOneClick ==
    \/ FirstClick
    \/ \E c \in 1..MaxClicks : Callback(c)
    \/ \E v \in UserTurbines : TurbSliderChange(v)
    \/ \E v \in UserLoads : LoadSliderChange(v)

SpecOneClick == Init /\ [][NextOneClick]_vars

\* one click and its callbacks, over every series with up to MaxSamples images
\* on the first day and at most one image on each later day
SeriesImages == {Calm, Breeze, Gale}
SeriesInputs ==
    [weather : {w \in [1..NumDays -> SeqsUpTo(SeriesImages, MaxSamples)] :
                    \A n \in 2..NumDays : Len(w[n]) <= 1},
     bCount : {Count(100)},
     raster : {Raster(TRUE)}]

SeriesClick == nClicks = 0 /\ \E in \in SeriesInputs : MapClick(in)

NextSeries ==
    \/ SeriesClick
    \/ \E c \in 1..MaxClicks : Callback(c)

SpecSeries == Init /\ [][NextSeries]_vars

\* the per-image function over every image with a whole-number speed
InitSample == InitApp /\ img \in ExactImages /\ bands = NULL /\ TrackIdle

NextSample == ProcessImage

SpecSample == InitSample /\ [][NextSample]_vars

\* the render over every slider position, from the state a completed click leaves;
\* LastCall is the click's chain when its last callback is due
LastCall(in) ==
    LET dailyData == DailyData(in.weather)
    IN  [stage |-> "count", point |-> [point |-> 1],
         weather |-> in.weather, dailyData |-> dailyData,
         buildingOnlyLayer |-> in.raster, bCount |-> in.bCount,
         wpdVal |-> [value |-> AggregateMeanWPD(dailyData)],
         genVal |-> [value |-> AggregateMeanGen(dailyData)]]

InitRender ==
    /\ seedImage \in 0..(SeedLevels - 1)
    /\ \E in \in RenderInputs :
          /\ LET call == LastCall(in)
                 st == LoadedState(ResetState(call.point), call)
                 ui == RenderVisuals(st, 1, 3, seedImage,
                           [statsPanel |-> <<ScanningLabel>>, chartPanel |-> <<>>,
                            layers |-> <<TurbineLayer(call.point)>>])
             IN  /\ APP_STATE = st
                 /\ calls = <<Settled("loaded")>>
                 /\ mapCenter = [buffer |-> call.point]
                 /\ statsPanel = ui.statsPanel
                 /\ chartPanel = ui.chartPanel
                 /\ layers = ui.layers
                 /\ baseline = [st |-> st, turbines |-> 1, load |-> 3, ui |-> ui]
    /\ nClicks = 1
    /\ turbSlider = 1
    /\ loadSlider = 3
    /\ turbLabel = [text |-> "Project Scale: # of Turbine"]
    /\ loadLabel = [text |-> "Avg Home Load: 1.5 kWh/day (Tier 3)"]
    /\ img = NULL
    /\ bands = NULL
    /\ TrackIdle

NextRender ==
    \/ \E v \in TurbSliderValues : TurbSliderChange(v)
    \/ \E v \in LoadSliderValues : LoadSliderChange(v)

SpecRender == InitRender /\ [][NextRender]_vars

\* the last callback of a click, over the values meanWPD.evaluate may return
\* around the two quality thresholds (in mW/m^2)
QualityWpds ==
    {0} \cup {t * KILO + d : t \in {GOOD_WPD, EXCELLENT_WPD},
                             d \in (-WpdMargin)..WpdMargin}

InitQuality ==
    /\ InitApp
    /\ img = NULL
    /\ bands = NULL
    /\ TrackIdle

QualityClick ==
    /\ nClicks = 0
    /\ \E w \in QualityWpds :
          LET call == [LastCall([weather |-> EveryDay(<<Breeze>>), bCount |-> Count(100),
                                 raster |-> Raster(TRUE)])
                          EXCEPT !.wpdVal = [value |-> w]]
          IN  /\ nClicks' = 1
              /\ statsPanel' = <<ScanningLabel>>
              /\ chartPanel' = <<>>
              /\ layers' = <<TurbineLayer(call.point)>>
              /\ APP_STATE' = ResetState(call.point)
              /\ mapCenter' = [buffer |-> call.point]
              /\ calls' = <<call>>
    /\ UNCHANGED <<turbSlider, loadSlider, turbLabel, loadLabel, seedImage, baseline,
                   img, bands, trackVars>>

NextQuality ==
    \/ QualityClick
    \/ CountCallback(1)

SpecQuality == InitQuality /\ [][NextQuality]_vars

\* ------------------------------------------------------------------------
\* Properties of the per-image function (SpecSample)
\* ------------------------------------------------------------------------
\* the squared speed of img, without the square root
SpeedSq == img.u * img.u + img.v * img.v
OutsideCurve == SpeedSq < CUT_IN_SPEED * CUT_IN_SPEED
                \/ SpeedSq > CUT_OUT_SPEED * CUT_OUT_SPEED

\* C1: for every image whose speed is below the cut-in speed (3 m/s) or above
\* the cut-out speed (25 m/s) the generation band is exactly 0, whatever the
\* raw power is.
C1_ZeroOutsideCurve ==
    (bands # NULL /\ OutsideCurve) => bands.Generation_KW = 0

\* an image above cut-out whose raw power exceeds the nameplate, generation 0
C1_Witness ==
    /\ bands # NULL
    /\ SpeedSq > CUT_OUT_SPEED * CUT_OUT_SPEED
    /\ bands.rawPowerW > MAX_GENERATION_KW * KILO
    /\ bands.Generation_KW = 0

\* C3: for every image whose speed is inside the power curve, the boundary
\* speeds 3 and 25 included, generation = min(rawPowerKW, MAX_GENERATION_KW),
\* where rawPowerKW = wpd * sweptArea * efficiency / 1000 and
\* wpd = 0.5 * airDensity * speed^3 (both up to fixed-point truncation); and
\* for every image, capping before zeroing equals zeroing before capping.
C3_MinInsideCurve ==
    bands # NULL =>
      LET cube == bands.speed * bands.speed * bands.speed
          cap == MAX_GENERATION_KW * KILO
      IN  /\ bands.speed * bands.speed = SpeedSq
          /\ 2 * bands.WPD <= cube * AIR_DENSITY_MILLI
          /\ cube * AIR_DENSITY_MILLI < 2 * bands.WPD + 2
          \* 0.5 * 1.225 * pi * 60^2 * 0.40 = 2770.88 W per (m/s)^3
          /\ 2768 * cube <= bands.rawPowerW
          /\ bands.rawPowerW <= 2771 * cube
          /\ ~OutsideCurve =>
                bands.Generation_KW = Min(bands.rawPowerW, cap)
          /\ bands.Generation_KW =
                Min(Where(bands.rawPowerW, OutsideCurve, 0), cap)

\* an image at exactly the cut-out speed: generation is the nameplate capacity
C3_Witness ==
    /\ bands # NULL
    /\ SpeedSq = CUT_OUT_SPEED * CUT_OUT_SPEED
    /\ bands.rawPowerW > MAX_GENERATION_KW * KILO
    /\ bands.Generation_KW = MAX_GENERATION_KW * KILO

\* an image at exactly the cut-in speed: generation is the raw power
C3_WitnessCutIn ==
    /\ bands # NULL
    /\ SpeedSq = CUT_IN_SPEED * CUT_IN_SPEED
    /\ bands.Generation_KW = bands.rawPowerW
    /\ bands.rawPowerW > 0

\* ------------------------------------------------------------------------
\* Properties of a click (SpecOneClick)
\* ------------------------------------------------------------------------
MaxDailyWh == HOURS_PER_DAY * MAX_GENERATION_KW * KILO

InFlight(c) == calls[c].stage \in {"size", "wpd", "gen", "count"}

FeaturesBounded(dailyData) ==
    \A i \in 1..Len(dailyData.features) :
        /\ dailyData.features[i].Daily_KWh_Per_Turbine.value >= 0
        /\ dailyData.features[i].Daily_KWh_Per_Turbine.value <= MaxDailyWh

\* C2: for every image of a click's series 0 <= generation <= MAX_GENERATION_KW,
\* every daily record's Daily_KWh_Per_Turbine lies in [0, 24 * MAX_GENERATION_KW],
\* and so does APP_STATE.kwhPerTurbine in every reachable state.
C2_GenerationBounded ==
    /\ \A c \in 1..Len(calls) : InFlight(c) =>
          /\ \A n \in 1..NumDays : \A i \in 1..Len(calls[c].weather[n]) :
                LET b == Processed(calls[c].weather[n][i])
                IN  b.Generation_KW >= 0 /\ b.Generation_KW <= MAX_GENERATION_KW * KILO
          /\ FeaturesBounded(calls[c].dailyData)
          /\ calls[c].genVal # NULL =>
                (calls[c].genVal.value >= 0 /\ calls[c].genVal.value <= MaxDailyWh)
    /\ APP_STATE.kwhPerTurbine >= 0
    /\ APP_STATE.kwhPerTurbine <= MaxDailyWh
    /\ APP_STATE.timeSeriesData # NULL => FeaturesBounded(APP_STATE.timeSeriesData)

\* a loaded site whose every image is above rated speed: the cap binds
C2_Witness ==
    /\ APP_STATE.hasData
    /\ APP_STATE.kwhPerTurbine = MaxDailyWh
    /\ Len(APP_STATE.timeSeriesData.features) = NumDays

\* the render has replaced the panel: the six labels of renderVisuals
Rendered == Len(statsPanel) = 6 /\ statsPanel[5].kind = "coverage"

NoBuildings(bCount) ==
    \/ bCount = NULL
    \/ ~Has(bCount.dict, "building_presence")
    \/ Get(bCount.dict, "building_presence") = 0

\* C4: a null count, a count without a building_presence entry and a zero
\* count are stored as APP_STATE.buildings = 0, and with buildings = 0 the
\* render shows coverageRatio = 0 whatever homesSupported is, divides by
\* nothing that is zero, and completes with the partial-coverage status; with
\* buildings > 0 it shows coverageRatio = homesSupported / buildings.
C4_ZeroBuildings ==
    /\ [](Rendered /\ APP_STATE.hasData =>
            LET cov == statsPanel[5]
            IN  /\ cov.buildings = APP_STATE.buildings
                /\ IsFinite(cov.homesSupported)
                /\ IsFinite(cov.coverageRatio)
                /\ APP_STATE.buildings = 0 =>
                      /\ cov.coverageRatio = Num(0)
                      /\ statsPanel[6].text = "STATUS: PARTIAL COVERAGE"
                      /\ statsPanel[6].pctText = 0
                      /\ Len(chartPanel) = 2
                /\ APP_STATE.buildings > 0 =>
                      /\ cov.coverageRatio.num = cov.homesSupported.num
                      /\ cov.coverageRatio.den = APP_STATE.buildings)
    /\ [][\A c \in 1..Len(calls) :
            (calls[c].stage = "count" /\ calls'[c].stage = "loaded") =>
                /\ Rendered' /\ APP_STATE'.hasData
                /\ NoBuildings(calls[c].bCount) => APP_STATE'.buildings = 0
                /\ ~NoBuildings(calls[c].bCount) =>
                      APP_STATE'.buildings = Get(calls[c].bCount.dict, "building_presence")
         ]_vars

\* an ocean click with wind: homes could be supplied, there is none to supply
C4_Witness ==
    /\ Rendered
    /\ APP_STATE.hasData
    /\ APP_STATE.buildings = 0
    /\ statsPanel[5].homesSupported.num > 0
    /\ statsPanel[5].coverageRatio = Num(0)
    /\ statsPanel[6].text = "STATUS: PARTIAL COVERAGE"

\* ------------------------------------------------------------------------
\* Properties of the render (SpecRender)
\* ------------------------------------------------------------------------
FullCoverage == statsPanel[6].text = "STATUS: FULL COVERAGE"
PartialCoverage == statsPanel[6].text = "STATUS: PARTIAL COVERAGE"

\* C5: in every render coverageRatio >= 0 and cappedRatio = min(coverageRatio, 1)
\* lies in [0,1]; the lottery reads cappedRatio; the status reads the unclamped
\* ratio: FULL COVERAGE exactly when coverageRatio >= 1, that is buildings > 0
\* and homesSupported >= buildings, PARTIAL COVERAGE otherwise (150 homes for
\* 100 buildings: ratio 1.5, capped 1, full coverage).
C5_CoverageRatio ==
    /\ Rendered =>
         LET cov == statsPanel[5]
             r == cov.coverageRatio
             cr == cov.cappedRatio
         IN  /\ r.den > 0 /\ r.num >= 0
             /\ cr.den > 0 /\ cr.num >= 0 /\ cr.num <= cr.den
             /\ r.num < r.den => cr = r
             /\ r.num >= r.den => cr = Num(1)
             /\ Len(layers) = 2
             /\ layers[2].visible =
                   (APP_STATE.buildingRaster.building
                    /\ seedImage * cr.den < cr.num * SeedLevels)
             /\ FullCoverage <=>
                   (APP_STATE.buildings > 0
                    /\ cov.homesSupported.num >= APP_STATE.buildings)
             /\ FullCoverage <=> r.num >= r.den
             /\ PartialCoverage <=> ~FullCoverage
             /\ FullCoverage => statsPanel[6].pctText = -1
             /\ PartialCoverage =>
                   (statsPanel[6].pctText >= 0 /\ statsPanel[6].pctText <= 1000)
    /\ LET r == CoverageRatio(Num(150), 100)
       IN  /\ r.num * 2 = r.den * 3
           /\ CappedRatio(r) = Num(1)
           /\ StatusLabel(r).text = "STATUS: FULL COVERAGE"
    /\ StatusLabel(CoverageRatio(Num(100), 100)).text = "STATUS: FULL COVERAGE"

\* a render that could serve more homes than there are: the fraction is clamped
C5_Witness ==
    /\ Rendered
    /\ statsPanel[5].coverageRatio.num > statsPanel[5].coverageRatio.den
    /\ statsPanel[5].cappedRatio = Num(1)
    /\ FullCoverage
    /\ layers[2].visible
    /\ turbSlider = 2
    /\ turbLabel = [text |-> "Project Scale: Turbines", value |-> 2]

\* a render with a coverage strictly between 0 and 1
C5_WitnessPartial ==
    /\ Rendered
    /\ statsPanel[5].coverageRatio.num > 0
    /\ statsPanel[5].coverageRatio.num < statsPanel[5].coverageRatio.den
    /\ PartialCoverage
    /\ loadSlider = 60

\* C6: for the stored kwhPerTurbine >= 0, every numTurbines in 1..10 and every
\* dailyLoad in {0.5, 1.0, ..., 30}, homesSupported =
\* floor(kwhPerTurbine * numTurbines / dailyLoad): a non-negative integer,
\* non-decreasing in numTurbines and non-increasing in dailyLoad.
C6_HomesSupported ==
    /\ turbSlider \in 1..10
    /\ loadSlider \in 1..60
    /\ Rendered =>
         LET h == statsPanel[5].homesSupported
             total == APP_STATE.kwhPerTurbine * turbSlider
             load == loadSlider * LOAD_STEP_WH
         IN  /\ APP_STATE.kwhPerTurbine >= 0
             /\ h.den = 1 /\ h.num >= 0
             /\ h.num * load <= total
             /\ total < (h.num + 1) * load
             /\ \A t \in 1..10 : t >= turbSlider =>
                   HomesSupported(APP_STATE.kwhPerTurbine * t, loadSlider).num >= h.num
             /\ \A l \in 1..60 : l >= loadSlider =>
                   HomesSupported(total, l).num <= h.num

\* ten turbines at the heaviest load, the division leaving a remainder
C6_Witness ==
    /\ Rendered
    /\ turbSlider = 10
    /\ loadSlider = 60
    /\ statsPanel[5].homesSupported.num > 0
    /\ (APP_STATE.kwhPerTurbine * turbSlider) % (loadSlider * LOAD_STEP_WH) # 0

\* C8 as stated: a scenario with numTurbines < 1 or dailyLoad <= 0 is rejected
\* before any coverage computation.  renderVisuals on such a scenario would have
\* to leave the panels as they are.
C8_RejectsInvalidScenario ==
    APP_STATE.hasData =>
        /\ RenderVisuals(APP_STATE, turbSlider, 0, seedImage, UI) = UI
        /\ RenderVisuals(APP_STATE, 0, loadSlider, seedImage, UI) = UI

\* C8 as amended: the sliders only take numTurbines in 1..10 and dailyLoad in
\* 0.5..30, so no render divides by a load that is zero or negative, and
\* homesSupported and the charted Houses_Powered are finite.
C8_ScenarioInRange ==
    /\ turbSlider >= 1
    /\ loadSlider * LOAD_STEP_WH > 0
    /\ Rendered =>
         /\ IsFinite(statsPanel[5].homesSupported)
         /\ Len(chartPanel) = 2
         /\ \A i \in 1..Len(chartPanel[1].data) :
               IsFinite(chartPanel[1].data[i].Houses_Powered)

\* a render with both sliders at their minimum, after they were moved
C8_Witness ==
    /\ Rendered
    /\ turbSlider = 1
    /\ loadSlider = 1
    /\ turbLabel # [text |-> "Project Scale: # of Turbine"]
    /\ statsPanel[5].homesSupported.num > 0

\* C9: a slider change leaves every field of APP_STATE unchanged, and a render
\* with the APP_STATE, turbine count and load of an earlier render shows what
\* that render showed, after any sequence of slider changes.
C9_RenderIdempotent ==
    /\ [][APP_STATE' = APP_STATE]_vars
    /\ []((APP_STATE = baseline.st /\ turbSlider = baseline.turbines
           /\ loadSlider = baseline.load) => UI = baseline.ui)

\* the sliders are back where the first render found them
C9_Witness ==
    /\ turbSlider = baseline.turbines
    /\ loadSlider = baseline.load
    /\ APP_STATE = baseline.st
    /\ UI = baseline.ui
    /\ turbLabel # [text |-> "Project Scale: # of Turbine"]

\* ------------------------------------------------------------------------
\* Properties of the application (Spec)
\* ------------------------------------------------------------------------
\* C7 as stated: when the latest click found no daily record, the panel shows
\* the no-wind-data error, APP_STATE.hasData is false with wpd, kwhPerTurbine
\* and buildings at their reset values, and no statistics or charts are shown.
C7_NoDataLeavesReset ==
    (nClicks >= 1 /\ calls[nClicks].stage = "nodata") =>
        /\ statsPanel = <<ErrorLabel>>
        /\ chartPanel = <<>>
        /\ ~APP_STATE.hasData
        /\ APP_STATE.wpd = 0
        /\ APP_STATE.kwhPerTurbine = 0
        /\ APP_STATE.buildings = 0

\* what the no-data branch does on its own, under every interleaving: it shows
\* the error, writes nothing to APP_STATE, and ends the chain (no building
\* query, no retry)
C7_NoDataStep ==
    [][\A c \in 1..Len(calls) :
         (calls[c].stage = "size" /\ Len(calls[c].dailyData.features) = 0
          /\ calls'[c] # calls[c]) =>
             /\ calls'[c] = Settled("nodata")
             /\ statsPanel' = <<ErrorLabel>>
             /\ APP_STATE' = APP_STATE
             /\ chartPanel' = chartPanel /\ layers' = layers
      ]_vars

\* C10: renderVisuals draws nothing while APP_STATE.hasData is false; hasData
\* implies that timeSeriesData, buildingRaster and centerPoint are non-null;
\* and APP_STATE changes with hasData true only in the innermost callback of a
\* chain whose three evaluations have returned, which writes wpd,
\* kwhPerTurbine, buildings, timeSeriesData and buildingRaster together.
C10_DataResolved ==
    /\ [](APP_STATE.hasData =>
            /\ APP_STATE.timeSeriesData # NULL
            /\ APP_STATE.buildingRaster # NULL
            /\ APP_STATE.centerPoint # NULL)
    /\ [][(APP_STATE'.hasData /\ APP_STATE' # APP_STATE) =>
            \E c \in 1..Len(calls) :
                /\ calls[c].stage = "count"
                /\ calls'[c] = Settled("loaded")
                /\ calls[c].wpdVal # NULL
                /\ calls[c].genVal # NULL
                /\ APP_STATE'.wpd = calls[c].wpdVal.value
                /\ APP_STATE'.kwhPerTurbine = calls[c].genVal.value
                /\ APP_STATE'.buildings = Buildings(calls[c].bCount)
                /\ APP_STATE'.timeSeriesData = calls[c].dailyData
                /\ APP_STATE'.buildingRaster = calls[c].buildingOnlyLayer
         ]_vars
    /\ [][(~APP_STATE.hasData
           /\ (turbSlider' # turbSlider \/ loadSlider' # loadSlider)) =>
              (UI' = UI /\ APP_STATE' = APP_STATE)
         ]_vars

\* a loaded site, rendered
C10_Witness ==
    /\ APP_STATE.hasData
    /\ Rendered
    /\ APP_STATE.timeSeriesData # NULL
    /\ APP_STATE.wpd > 0

\* a slider moved while the site is still being scanned: nothing is drawn
C10_WitnessScanning ==
    /\ ~APP_STATE.hasData
    /\ statsPanel = <<ScanningLabel>>
    /\ turbLabel = [text |-> "Project Scale: Turbines", value |-> 10]

\* ------------------------------------------------------------------------
\* Properties of the daily series (SpecSeries)
\* ------------------------------------------------------------------------
\* the days of a series that have at least one image
SampledDays(weather) == {n \in 1..NumDays : weather[n] # <<>>}

\* the sum of a property over the sampled days among the first n days
RECURSIVE SumSampledDays(_, _, _)
SumSampledDays(weather, n, prop) ==
    IF n = 0 THEN 0
    ELSE SumSampledDays(weather, n - 1, prop)
         + (IF weather[n] = <<>> THEN 0
            ELSE IF prop = "WPD" THEN DayFeature(n - 1, weather[n]).WPD.value
            ELSE DayFeature(n - 1, weather[n]).Daily_KWh_Per_Turbine.value)

\* C11: a day without samples contributes nothing: dailyData holds exactly one
\* record for each day that has a sample, in day order and none with a null
\* WPD, so it has between 0 and NumDays records (NumDays stands for the 365
\* days of the script); meanWPD and meanGen are the arithmetic means of the
\* records of exactly those days.
C11_EmptyDaysFiltered ==
    \A c \in 1..Len(calls) :
        InFlight(c) =>
            LET weather == calls[c].weather
                fs == calls[c].dailyData.features
                days == SampledDays(weather)
            IN  /\ Len(fs) = Cardinality(days)
                /\ Len(fs) \in 0..NumDays
                /\ \A i \in 1..Len(fs) :
                       /\ fs[i].WPD # NULL
                       /\ fs[i].Daily_KWh_Per_Turbine # NULL
                       /\ (fs[i].time_start + 1) \in days
                       /\ fs[i] = DayFeature(fs[i].time_start, weather[fs[i].time_start + 1])
                /\ \A i, j \in 1..Len(fs) : i < j => fs[i].time_start < fs[j].time_start
                /\ calls[c].wpdVal # NULL =>
                       /\ days # {}
                       /\ calls[c].wpdVal.value
                              = SumSampledDays(weather, NumDays, "WPD") \div Cardinality(days)
                /\ calls[c].genVal # NULL =>
                       /\ days # {}
                       /\ calls[c].genVal.value
                              = SumSampledDays(weather, NumDays, "Daily_KWh_Per_Turbine")
                                    \div Cardinality(days)

\* a series whose first day has no sample and whose last day has one, both means taken
C11_Witness ==
    \E c \in 1..Len(calls) :
        /\ calls[c].stage = "count"
        /\ calls[c].weather[1] = <<>>
        /\ calls[c].weather[NumDays] = <<Gale>>
        /\ Len(calls[c].dailyData.features) < NumDays
        /\ calls[c].dailyData.features[Len(calls[c].dailyData.features)].time_start
               = NumDays - 1
        /\ calls[c].wpdVal.value > 0

\* the generation of one sample, from its components
SampleGen(im) ==
    LET speed == Hypot(im.u, im.v)
    IN  IF speed < CUT_IN_SPEED \/ speed > CUT_OUT_SPEED THEN 0
        ELSE Min(RawPowerW(WPD(speed)), MAX_GENERATION_KW * KILO)

RECURSIVE SumSamples(_, _, _)
SumSamples(images, k, band) ==
    IF k = 0 THEN 0
    ELSE SumSamples(images, k - 1, band)
         + (IF band = "WPD" THEN WPD(Hypot(images[k].u, images[k].v))
            ELSE SampleGen(images[k]))

\* C12: for a day with one or more samples, the record's WPD is the arithmetic
\* mean of the samples' wind power densities and its Daily_KWh_Per_Turbine is
\* 24 times the arithmetic mean of the samples' generation, the power curve
\* having been applied to each sample.
C12_DailyMeans ==
    \A c \in 1..Len(calls) :
        InFlight(c) =>
            \A i \in 1..Len(calls[c].dailyData.features) :
                LET f == calls[c].dailyData.features[i]
                    images == calls[c].weather[f.time_start + 1]
                IN  /\ Len(images) >= 1
                    /\ f.WPD.value = SumSamples(images, Len(images), "WPD") \div Len(images)
                    /\ f.Daily_KWh_Per_Turbine.value
                           = HOURS_PER_DAY
                             * (SumSamples(images, Len(images), "Generation_KW")
                                    \div Len(images))

\* a day with a calm sample (no generation) and a sample at nameplate: the
\* record holds 24 h of half the nameplate power, which is not the power
\* curve at the mean speed of 7 m/s
C12_Witness ==
    \E c \in 1..Len(calls) :
        /\ InFlight(c)
        /\ calls[c].weather[1] = <<Calm, Gale>>
        /\ calls[c].dailyData.features[1].Daily_KWh_Per_Turbine.value
               = HOURS_PER_DAY * ((MAX_GENERATION_KW * KILO) \div 2)
        /\ calls[c].dailyData.features[1].Daily_KWh_Per_Turbine.value
               # HOURS_PER_DAY * SampleGen(Image(0, 7))

\* ------------------------------------------------------------------------
\* Properties of the quality label (SpecQuality)
\* ------------------------------------------------------------------------
\* C13: the quality label is a total function of meanWPD with one label per
\* value: Poor below 200 W/m^2, Good from 200 up to but not including 400,
\* Excellent from 400; the text colour is black, orange, green in the same
\* three buckets.
C13_QualityBuckets ==
    Rendered =>
        LET label == statsPanel[2]
            meanWPD == APP_STATE.wpd
            poor == meanWPD < GOOD_WPD * KILO
            good == GOOD_WPD * KILO <= meanWPD /\ meanWPD < EXCELLENT_WPD * KILO
            excellent == meanWPD >= EXCELLENT_WPD * KILO
        IN  /\ label.kind = "quality"
            /\ label.quality \in {"Poor", "Good", "Excellent"}
            /\ label.quality = "Poor" <=> poor
            /\ label.quality = "Good" <=> good
            /\ label.quality = "Excellent" <=> excellent
            /\ label.color = "black" <=> poor
            /\ label.color = "orange" <=> good
            /\ label.color = "green" <=> excellent

\* a site at exactly 400 W/m^2, labelled Excellent in green
C13_Witness ==
    /\ Rendered
    /\ APP_STATE.wpd = EXCELLENT_WPD * KILO
    /\ statsPanel[2].quality = "Excellent"
    /\ statsPanel[2].color = "green"

\* a site at exactly 200 W/m^2, labelled Good in orange
C13_WitnessGood ==
    /\ Rendered
    /\ APP_STATE.wpd = GOOD_WPD * KILO
    /\ statsPanel[2].quality = "Good"
    /\ statsPanel[2].color = "orange"

\* ------------------------------------------------------------------------
\* Properties of interleaved clicks (Spec)
\* ------------------------------------------------------------------------
SliderStep == turbSlider' # turbSlider \/ loadSlider' # loadSlider

\* C14 as stated: a map click resets APP_STATE to its defaults with
\* centerPoint the clicked point and shows the scanning message; from that
\* click until its final callback a slider change updates the two slider
\* labels only: the layers, the stats panel (the scanning message) and the
\* chart panel stay as the click left them.
C14_SlidersWaitForClick ==
    [][/\ nClicks' # nClicks =>
              /\ APP_STATE' = ResetState([point |-> nClicks'])
              /\ APP_STATE'.centerPoint # NULL
              /\ statsPanel' = <<ScanningLabel>>
              /\ chartPanel' = <<>>
       /\ (nClicks >= 1 /\ InFlight(nClicks) /\ SliderStep) =>
              /\ statsPanel' = statsPanel
              /\ chartPanel' = chartPanel
              /\ layers' = layers
              /\ APP_STATE' = APP_STATE
              /\ turbLabel'.value = turbSlider'
              /\ loadLabel'.value = loadSlider'
      ]_vars

\* click c's innermost callback runs in this step
Loads(c) == calls[c].stage = "count" /\ calls'[c] = Settled("loaded")

\* C16 as stated: under any interleaving of clicks and callbacks, a callback
\* of an earlier click never writes its results into the state created by a
\* later click: the innermost callback that sets wpd, kwhPerTurbine,
\* buildings, timeSeriesData, buildingRaster and hasData belongs to the click
\* that set centerPoint, the most recent one.
C16_SameClick ==
    [][\A c \in 1..Len(calls) :
         Loads(c) =>
             /\ APP_STATE'.hasData
             /\ APP_STATE'.centerPoint = calls[c].point
             /\ c = nClicks
      ]_vars

\* every callback of every click has returned
Quiescent == nClicks >= 1 /\ \A c \in 1..Len(calls) : ~InFlight(c)

\* C17 as stated, its final outcome: once all pending callbacks of all clicks
\* have returned, the stats panel, the charts and the layers show the outcome
\* of the most recent click: its no-wind-data error (not overwritten by the
\* results of an earlier click), or its rendered statistics and charts.
C17_LatestOutcomeShown ==
    Quiescent =>
        /\ statsPanel # <<ScanningLabel>>
        /\ calls[nClicks].stage = "nodata" =>
               /\ statsPanel = <<ErrorLabel>>
               /\ chartPanel = <<>>
               /\ layers = <<TurbineLayer([point |-> nClicks])>>
        /\ calls[nClicks].stage = "loaded" =>
               /\ Rendered
               /\ Len(chartPanel) = 2
               /\ APP_STATE.hasData

\* the part of C17 that holds when every evaluation returns (SpecFair): the
\* scanning message of a click is eventually replaced
C17_ScanningReplaced ==
    <>[](nClicks >= 1 => statsPanel # <<ScanningLabel>>)

\* ------------------------------------------------------------------------
\* Properties of the powered-household layer (SpecRender)
\* ------------------------------------------------------------------------
\* the lottery of the last render, read off the user interface
ShownRatio == statsPanel[5].cappedRatio
PoweredShown == Len(layers) = 2 /\ layers[2].visible
RatioLe(a, b) == a.num * b.den <= b.num * a.den

\* C15: the powered-household layer shows a pixel only if it is a building
\* and its random value is below cappedRatio: never a non-building pixel, no
\* building when cappedRatio = 0, every building when cappedRatio = 1; the
\* layer is drawn only when buildingRaster is set; the random image is the
\* same on every render (fixed seed), so for one cappedRatio the same pixels
\* are shown and a pixel shown stays shown when cappedRatio grows.
C15_PoweredLayer ==
    /\ [](Rendered =>
            LET raster == APP_STATE.buildingRaster
            IN  /\ layers[1] = TurbineLayer(APP_STATE.centerPoint)
                /\ Len(layers) = 2 <=> raster # NULL
                /\ Len(layers) = 2 =>
                       /\ layers[2].name = "Powered Households"
                       /\ IsFinite(ShownRatio)
                       /\ RatioLe(Num(0), ShownRatio) /\ RatioLe(ShownRatio, Num(1))
                       /\ layers[2].visible <=>
                              (raster.building
                               /\ seedImage * ShownRatio.den < ShownRatio.num * SeedLevels)
                       /\ ~raster.building => ~layers[2].visible
                       /\ ShownRatio.num = 0 => ~layers[2].visible
                       /\ (ShownRatio = Num(1) /\ raster.building) => layers[2].visible)
    /\ [][(Rendered /\ Rendered') =>
            /\ seedImage' = seedImage
            /\ ShownRatio' = ShownRatio => PoweredShown' = PoweredShown
            /\ (RatioLe(ShownRatio, ShownRatio') /\ PoweredShown) => PoweredShown'
         ]_vars

\* a building that wins the lottery at a ratio strictly between 0 and 1, after a
\* slider change
C15_Witness ==
    /\ Rendered
    /\ turbSlider # 1
    /\ PoweredShown
    /\ APP_STATE.buildingRaster.building
    /\ ShownRatio.num > 0
    /\ ShownRatio.num < ShownRatio.den

\* a pixel that is no building, kept hidden at full coverage
C15_WitnessNoBuilding ==
    /\ Rendered
    /\ Len(layers) = 2
    /\ ~APP_STATE.buildingRaster.building
    /\ ShownRatio = Num(1)
    /\ ~layers[2].visible

\* a building that loses the lottery
C15_WitnessLoses ==
    /\ Rendered
    /\ Len(layers) = 2
    /\ APP_STATE.buildingRaster.building
    /\ ShownRatio.num > 0
    /\ ~layers[2].visible

\* ------------------------------------------------------------------------
\* Storm track script (src/melissatrack.js)
\* ------------------------------------------------------------------------
\* Timestamps are in units of 3 hours (every entry of bestTrackData falls on
\* one); the 6 hours of the join are 2 units.
MAX_DIFFERENCE == 2

\* ground-truth tracks: two to MaxEntries entries in time order; pos stands
\* for the entry's lon/lat
Tracks ==
    UNION {
      { [k \in 1..n |-> [t |-> s[k].t, cat |-> s[k].cat, pos |-> k]] :
          s \in { x \in [1..n -> [t : 0..MaxTime, cat : 0..1]] :
                    \A k \in 1..(n - 1) : x[k].t < x[k + 1].t } } :
      n \in 2..MaxEntries }

InitTrack ==
    /\ APP_STATE = ResetState(NULL)
    /\ turbSlider = 1
    /\ loadSlider = 3
    /\ turbLabel = NULL
    /\ loadLabel = NULL
    /\ statsPanel = <<>>
    /\ chartPanel = <<>>
    /\ layers = <<>>
    /\ mapCenter = NULL
    /\ calls = <<>>
    /\ nClicks = 0
    /\ seedImage = 0
    /\ baseline = NULL
    /\ img = NULL
    /\ bands = NULL
    /\ bestTrackData \in Tracks
    /\ trackIndex = 0
    /\ segments = <<>>
    /\ points = <<>>
    /\ frame = NULL

\* for (var i = 0; i < bestTrackData.length - 1; i++)
LoopRuns == trackIndex < Len(bestTrackData) - 1

\* one pass of the loop body (lines 68-85); trackIndex is the script's i
TrackLoop ==
    /\ LoopRuns
    /\ LET p1 == bestTrackData[trackIndex + 1]
           p2 == bestTrackData[trackIndex + 2]
       IN  /\ segments' = Append(segments,
                  [line |-> <<p1.pos, p2.pos>>, time_start |-> p1.t,
                   time_end |-> p2.t, cat |-> p1.cat])
           /\ points' = Append(points, [point |-> p1.pos, time_start |-> p1.t])
    /\ trackIndex' = trackIndex + 1
    /\ UNCHANGED <<appVars, img, bands, bestTrackData, frame>>

Abs(x) == IF x < 0 THEN -x ELSE x

\* saveBestJoin.apply(forecastCol, trackPoints, timeFilter) for an image at
\* time t: the points within MAX_DIFFERENCE of t that are nearest to it
BestMatches(trackPoints, t) ==
    LET near == {k \in 1..Len(trackPoints) :
                    Abs(trackPoints[k].time_start - t) <= MAX_DIFFERENCE}
    IN  {trackPoints[k] : k \in {k \in near : \A j \in near :
            Abs(trackPoints[k].time_start - t) <= Abs(trackPoints[j].time_start - t)}}

\* trackSegments.filter(ee.Filter.lt('system:time_start', currentMillis))
PastTrack(trackSegments, currentMillis) ==
    LET Before(s) == s.time_start < currentMillis
    IN  SelectSeq(trackSegments, Before)

\* processFrame for the forecast image at time t, once the collections are built;
\* of two equally near points the join keeps either
ProcessFrame(t) ==
    /\ ~LoopRuns
    /\ frame = NULL
    /\ \E m \in (IF BestMatches(points, t) = {} THEN {NULL} ELSE BestMatches(points, t)) :
          frame' = [time_start |-> t,
                    pastTrack |-> PastTrack(segments, t),
                    matched_truth_point |-> m,
                    dotLayer |-> m # NULL]
    /\ UNCHANGED <<appVars, img, bands, bestTrackData, trackIndex, segments, points>>

NextTrack ==
    \/ TrackLoop
    \/ \E t \in 0..MaxTime : ProcessFrame(t)

SpecTrack == InitTrack /\ [][NextTrack]_vars

\* ------------------------------------------------------------------------
\* Properties of the storm track script (SpecTrack)
\* ------------------------------------------------------------------------
\* what holds of the construction: one segment per consecutive pair, carrying
\* the category and time of its first entry and the time of its second; a
\* frame paints exactly the segments that start before it
TrackSegmentsBuilt ==
    ~LoopRuns =>
        LET n == Len(bestTrackData)
        IN  /\ Len(segments) = n - 1
            /\ \A k \in 1..Len(segments) :
                   /\ segments[k].cat = bestTrackData[k].cat
                   /\ segments[k].time_start = bestTrackData[k].t
                   /\ segments[k].time_end = bestTrackData[k + 1].t
                   /\ segments[k].line = <<bestTrackData[k].pos, bestTrackData[k + 1].pos>>
            /\ frame # NULL =>
                   /\ \A k \in 1..Len(frame.pastTrack) :
                          frame.pastTrack[k].time_start < frame.time_start
                   /\ Len(frame.pastTrack)
                          = Cardinality({k \in 1..Len(segments) :
                                            segments[k].time_start < frame.time_start})

\* C18 as stated: the loop yields one segment for every consecutive pair of
\* the n entries and one point feature for every entry, the last included, so
\* that every ground-truth timestamp can be matched by the 6-hour join; a
\* frame at time t paints exactly the segments that start before t.
C18_TrackFeatures ==
    /\ TrackSegmentsBuilt
    /\ ~LoopRuns =>
           LET n == Len(bestTrackData)
           IN  /\ Len(points) = n
               /\ \A k \in 1..n : /\ points[k].time_start = bestTrackData[k].t
                                  /\ points[k].point = bestTrackData[k].pos
               /\ frame # NULL =>
                      ((\E k \in 1..n :
                           Abs(bestTrackData[k].t - frame.time_start) <= MAX_DIFFERENCE)
                       => frame.dotLayer)

====
